---------------------------- MODULE Spec2Model ----------------------------
(***************************************************************************)
(* Model of simd/unit_tests/TestSimd.cpp: the assertion backends           *)
(* (gtest_checker, kokkos_checker), the three lane loaders, the chunked    *)
(* comparison driver in its host and device form, and the ABI-set          *)
(* dispatcher host_check_abis.                                             *)
(*                                                                         *)
(* A batch (simd<T, Abi>) of width w is a sequence of length w; lane j of  *)
(* the source is element j + 1 of the sequence.  An array of n elements is *)
(* a sequence of length n; mem[k] with mem = args + base is element        *)
(* base + k + 1.                                                           *)
(***************************************************************************)
EXTENDS Integers, Sequences, FiniteSets

\* ------------------------------------------------------------ bounds

\* The largest vector width of a configuration.
MaxWidth == 4

\* The largest number of configurations in a configuration set.
MaxAbis == 2

\* ------------------------------------------------- program constants

\* std::size_t constexpr n = 7 of host_check_addition.
N == 7

first_args_literal == <<1, 2, -1, 10, 0, 1, -2>>

second_args_literal == <<1, 2, 1, 1, 0, -3, -2>>

Widths == 1 .. MaxWidth

\* The values an uninitialized lane, or a read past the end of an array,
\* may yield.
Garbage == {0, 9}

\* A default-constructed simd<T, Abi> (simd_type first_arg;): its lanes are
\* indeterminate.
Uninit(w) == {[j \in 1 .. w |-> g] : g \in Garbage}

\* The defects the vector type may have: none, a wrong lane in the
\* vectorized operator+, an all_of or a none_of that answers false, and a
\* wrong lane together with comparisons that do not see it.
Faults == {"none", "plus", "all_of", "none_of", "plus_unseen"}

\* The loader strategies in the order host_check_binary_op_all_loaders and
\* device_check_binary_op_all_loaders run them.
all_loaders == <<"load_element_aligned", "load_masked", "load_as_scalars">>

Min(a, b) == IF a < b THEN a ELSE b

Prefix(s, k) == SubSeq(s, 1, k)

RECURSIVE AbiSetsOfLen(_)
\* The configuration sets of k distinct widths, in every declared order.
AbiSetsOfLen(k) ==
  IF k = 0 THEN {<<>>}
  ELSE {Append(p[1], p[2]) :
          p \in {q \in AbiSetsOfLen(k - 1) \X Widths :
                   \A a \in 1 .. Len(q[1]) : q[1][a] # q[2]}}

AbiSets == UNION {AbiSetsOfLen(k) : k \in 0 .. MaxAbis}

\* ------------------------------------- the vector type (Kokkos_Simd.hpp)

\* mem[k] for mem = args + base; a read past the end of the array yields
\* an arbitrary value.
MemAt(args, base, k, oob) ==
  IF base + k < Len(args) THEN args[base + k + 1] ELSE oob

\* result.copy_from(mem, element_aligned_tag()): every lane from memory.
copy_from(args, base, w, oob) ==
  [j \in 1 .. w |-> MemAt(args, base, j - 1, oob)]

\* where(mask, result).copy_from(mem, element_aligned_tag()): the lanes the
\* mask selects are loaded, the others keep their value.
where_copy_from(mask, result, args, base, oob) ==
  [j \in 1 .. Len(result) |->
     IF mask[j] THEN MemAt(args, base, j - 1, oob) ELSE result[j]]

\* where(mask, result) = v.
where_assign(mask, result, v) ==
  [j \in 1 .. Len(result) |-> IF mask[j] THEN v ELSE result[j]]

\* !mask.
mask_not(mask) == [j \in 1 .. Len(mask) |-> ~mask[j]]

\* a == b of two batches: a mask.
simd_eq(a, b, f) ==
  [j \in 1 .. Len(a) |-> IF f = "plus_unseen" THEN TRUE ELSE a[j] = b[j]]

\* a != b of two batches: a mask.
simd_ne(a, b, f) ==
  [j \in 1 .. Len(a) |-> IF f = "plus_unseen" THEN FALSE ELSE a[j] # b[j]]

\* all_of(mask).
all_of(mask, f) ==
  IF f = "all_of" THEN FALSE ELSE \A j \in 1 .. Len(mask) : mask[j]

\* none_of(mask).
none_of(mask, f) ==
  IF f = "none_of" THEN FALSE ELSE \A j \in 1 .. Len(mask) : ~mask[j]

\* a + b of two batches; a defective operator+ is wrong in the last lane.
simd_plus(a, b, f) ==
  [j \in 1 .. Len(a) |->
     IF f \in {"plus", "plus_unseen"} /\ j = Len(a)
     THEN a[j] + b[j] + 1 ELSE a[j] + b[j]]

\* ------------------------------------------------ assertion backends

\* What an assertion does: halt the process (abort), and the failures it
\* records through the test framework.
Outcome(abort, record) == [abort |-> abort, record |-> record]

\* EXPECT_TRUE(x): a false x is recorded as a test failure; the test goes on.
EXPECT_TRUE(x) == IF x THEN <<>> ELSE <<"EXPECT_TRUE">>

\* EXPECT_EQ(a, b): a difference is recorded as a test failure; the test
\* goes on.
EXPECT_EQ(a, b) == IF a # b THEN <<"EXPECT_EQ">> ELSE <<>>

\* A truth that aborts on false, as ASSERT-like checking would.
gtest_truth_fatal(x) == Outcome(~x, EXPECT_TRUE(x))

\* gtest_checker::truth: EXPECT_TRUE(x).
gtest_truth(x) == Outcome(FALSE, EXPECT_TRUE(x))

\* gtest_checker::equality: if (a != b) std::abort(); EXPECT_EQ(a, b);
\* the abort comes first, so EXPECT_EQ is reached only with a = b.
gtest_equality(a, b) ==
  IF a # b THEN Outcome(TRUE, <<>>) ELSE Outcome(FALSE, EXPECT_EQ(a, b))

\* KOKKOS_ASSERT(c): halts execution when c is false.
KOKKOS_ASSERT(c) == Outcome(~c, <<>>)

\* kokkos_checker::truth.
kokkos_truth(x) == KOKKOS_ASSERT(x)

\* kokkos_checker::equality.
kokkos_equality(a, b) == KOKKOS_ASSERT(a = b)

\* checker.truth(x) of host_check_equality (c = "host") and of
\* device_check_equality (c = "device").
checker_truth(c, x) == IF c = "host" THEN gtest_truth(x) ELSE kokkos_truth(x)

\* checker.equality(a, b) of host_check_equality and device_check_equality.
checker_equality(c, a, b) ==
  IF c = "host" THEN gtest_equality(a, b) ELSE kokkos_equality(a, b)

\* ------------------------------------------------------ lane loaders

\* What a load does: its return value, the batch it leaves, the elements
\* of mem it reads (k for mem[k]) and the lanes, of the batch or of the
\* mask, it writes.
Loaded(ok, result, reads, writes) ==
  [ok |-> ok, result |-> result, reads |-> reads, writes |-> writes]

\* An element-aligned load without the test of n against size().
load_element_aligned_unguarded(args, base, n, result, oob) ==
  Loaded(TRUE, copy_from(args, base, Len(result), oob),
         0 .. Len(result) - 1, 0 .. Len(result) - 1)

\* load_element_aligned::host_load and device_load.
load_element_aligned(args, base, n, result, oob) ==
  IF n < Len(result) THEN Loaded(FALSE, result, {}, {})
  ELSE Loaded(TRUE, copy_from(args, base, Len(result), oob),
              0 .. Len(result) - 1, 0 .. Len(result) - 1)

\* A masked load without where(!mask, result) = T(0).
load_masked_no_fill(args, base, n, result, oob) ==
  LET w == Len(result)
      mask == [j \in 1 .. w |-> j - 1 < n]
  IN Loaded(TRUE, where_copy_from(mask, result, args, base, oob),
            {k \in 0 .. w - 1 : mask[k + 1]}, 0 .. n - 1)

\* load_masked::host_load and device_load.
load_masked(args, base, n, result, oob) ==
  LET w == Len(result)
      \* mask_type mask(false); for (i < n) mask[i] = true;
      mask == [j \in 1 .. w |-> j - 1 < n]
      loaded == where_copy_from(mask, result, args, base, oob)
      filled == where_assign(mask_not(mask), loaded, 0)
  IN Loaded(TRUE, filled, {k \in 0 .. w - 1 : mask[k + 1]},
            (0 .. n - 1) \cup (0 .. w - 1))

\* A scalar load without its second loop.
load_as_scalars_no_fill(args, base, n, result, oob) ==
  LET w == Len(result)
  IN Loaded(TRUE,
            [j \in 1 .. w |->
               IF j - 1 < n THEN MemAt(args, base, j - 1, oob) ELSE result[j]],
            0 .. n - 1, 0 .. n - 1)

\* load_as_scalars::host_load and device_load.
load_as_scalars(args, base, n, result, oob) ==
  LET w == Len(result)
  IN Loaded(TRUE,
            \* for (i < n) result[i] = mem[i]; for (n <= i < size) result[i] = 0;
            [j \in 1 .. w |->
               IF j - 1 < n THEN MemAt(args, base, j - 1, oob) ELSE 0],
            0 .. n - 1, (0 .. n - 1) \cup (n .. w - 1))

\* loader.host_load(mem, n, result) for the loader strategy named l.
load(l, args, base, n, result, oob) ==
  CASE l = "load_element_aligned" -> load_element_aligned(args, base, n, result, oob)
    [] l = "load_masked" -> load_masked(args, base, n, result, oob)
    [] l = "load_as_scalars" -> load_as_scalars(args, base, n, result, oob)

\* --------------------------------------------- operation adapter (plus)

\* A scalar form that subtracts.
plus_scalar_minus(a, b) == a - b

\* plus::on_host and plus::on_device on two elements.
plus_scalar(a, b) == a + b

\* plus::on_host and plus::on_device on two batches.
plus_simd(a, b, f) == simd_plus(a, b, f)

\* ------------------------------------------------------------- state

VARIABLES
  entry,              \* what is being run: TEST(simd, host), one call of
                      \* {host,device}_check_binary_op_all_loaders, or one
                      \* call of a loader
  ctx,                \* "host" or "device": which form of the code runs
  fault,              \* the defect of the vector type, fixed for the run
  abi_set,            \* host_abi_set(): the widths of its configurations
  rest,               \* the set host_check_abis is called with
  abi_log,            \* begin and end of each host_check_abi<Abi>(), in order
  run,                \* 1 in the first run of the test, 2 in the second
  n,                  \* n of the driver (available count of a loader call)
  first_args,
  second_args,
  width,              \* simd_type::size() of the configuration under test
  loader,             \* index in all_loaders of the running strategy
  i,                  \* the chunk's first element
  nlanes,
  prior_first,        \* first_arg as default-constructed, before the load
  prior_second,
  first_arg,
  second_arg,
  loaded_first_arg,
  loaded_second_arg,
  reads,              \* the elements of the arrays the chunk's loads read
  writes,             \* the lanes the chunk's loads wrote
  expected_result,
  computed_result,
  lane,               \* i of the loop of host_check_equality
  asserts,            \* the assertions of the chunk, in order
  failures,           \* the failures the test framework has recorded
  compared,           \* per strategy, the chunks compared for this width
  trace,              \* the chunks of the run: loads, skip or comparison
  prev_trace,         \* the trace of the first run, in the second
  prev_failures,
  pc

vars ==
  <<entry, ctx, fault, abi_set, rest, abi_log, run, n, first_args,
    second_args, width, loader, i, nlanes, prior_first, prior_second,
    first_arg, second_arg, loaded_first_arg, loaded_second_arg, reads,
    writes, expected_result, computed_result, lane, asserts, failures,
    compared, trace, prev_trace, prev_failures, pc>>

\* The inputs of an entry point, fixed while it runs.
inputs == <<entry, ctx, fault, abi_set>>

\* The arguments of the driver.
arguments == <<n, first_args, second_args, width>>

\* The locals of one chunk iteration.
chunk == <<nlanes, prior_first, prior_second, first_arg, second_arg,
           loaded_first_arg, loaded_second_arg, reads, writes,
           expected_result, computed_result, lane, asserts>>

\* The run's history.
history == <<run, prev_trace, prev_failures>>

Loader == all_loaders[loader]

NoChunk ==
  /\ nlanes = 0
  /\ prior_first = <<>>
  /\ prior_second = <<>>
  /\ first_arg = <<>>
  /\ second_arg = <<>>
  /\ loaded_first_arg = FALSE
  /\ loaded_second_arg = FALSE
  /\ reads = {}
  /\ writes = {}
  /\ expected_result = <<>>
  /\ computed_result = <<>>
  /\ lane = 0
  /\ asserts = <<>>

\* The locals of a chunk iteration go out of scope at its end.
LeaveChunk ==
  /\ nlanes' = 0
  /\ prior_first' = <<>>
  /\ prior_second' = <<>>
  /\ first_arg' = <<>>
  /\ second_arg' = <<>>
  /\ loaded_first_arg' = FALSE
  /\ loaded_second_arg' = FALSE
  /\ reads' = {}
  /\ writes' = {}
  /\ expected_result' = <<>>
  /\ computed_result' = <<>>
  /\ lane' = 0
  /\ asserts' = <<>>

NoHistory ==
  /\ run = 1
  /\ failures = <<>>
  /\ trace = <<>>
  /\ prev_trace = <<>>
  /\ prev_failures = <<>>
  /\ abi_log = <<>>
  /\ compared = [l \in 1 .. 3 |-> 0]

\* TEST(simd, host): host_check_abis(host_abi_set()).
InitTest ==
  /\ entry = "TEST"
  /\ ctx = "host"
  /\ fault \in Faults
  /\ abi_set \in AbiSets
  /\ rest = abi_set
  /\ n = 0
  /\ first_args = <<>>
  /\ second_args = <<>>
  /\ width = 0
  /\ loader = 1
  /\ i = 0
  /\ pc = "host_check_abis"

\* One call of host_check_binary_op_all_loaders<Abi> or of
\* device_check_binary_op_all_loaders<Abi> with plus() and the first n
\* elements of the arrays of host_check_addition.
InitAllLoaders ==
  /\ entry = "all_loaders"
  /\ ctx \in {"host", "device"}
  /\ fault \in Faults
  /\ abi_set = <<>>
  /\ rest = <<>>
  /\ n \in 0 .. N
  /\ first_args = Prefix(first_args_literal, n)
  /\ second_args = Prefix(second_args_literal, n)
  /\ width \in Widths
  /\ loader = 1
  /\ i = 0
  /\ pc = "for"

\* One call of a loader's host_load or device_load on a buffer of n
\* elements; load_masked and load_as_scalars with n <= size().
InitLoad ==
  /\ entry = "load"
  /\ ctx \in {"host", "device"}
  /\ fault = "none"
  /\ abi_set = <<>>
  /\ rest = <<>>
  /\ n \in 0 .. N
  /\ first_args \in {Prefix(first_args_literal, n), Prefix(second_args_literal, n)}
  /\ second_args = <<>>
  /\ width \in Widths
  /\ loader \in 1 .. 3
  /\ (all_loaders[loader] # "load_element_aligned" => n <= width)
  /\ i = 0
  /\ pc = "load"

Init ==
  /\ (InitTest \/ InitAllLoaders \/ InitLoad)
  /\ NoChunk
  /\ NoHistory

\* ----------------------------------------------------------- actions

\* A dispatch on the last configuration of the set instead of the first.
LastAbi(set) == set[Len(set)]

\* FirstAbi of abi_set<FirstAbi, RestAbis...>.
FirstAbi(set) == Head(set)

\* RestAbis of abi_set<FirstAbi, RestAbis...>.
RestAbis(set) == Tail(set)

\* host_check_abis(abi_set<>): the empty set; nothing is run.
HostCheckAbisEmpty ==
  /\ pc = "host_check_abis"
  /\ rest = <<>>
  /\ pc' = "returned"
  /\ UNCHANGED <<inputs, arguments, chunk, history, rest, abi_log, loader,
                 i, failures, compared, trace>>

\* host_check_abis(abi_set<FirstAbi, RestAbis...>): host_check_abi<FirstAbi>()
\* calls host_check_addition<FirstAbi>(), which calls
\* host_check_binary_op_all_loaders with n = 7 and its two arrays; the
\* recursion on RestAbis follows when that returns.
HostCheckAbisFirst ==
  /\ pc = "host_check_abis"
  /\ rest # <<>>
  /\ width' = FirstAbi(rest)
  /\ rest' = RestAbis(rest)
  /\ abi_log' = Append(abi_log, <<"begin", FirstAbi(rest)>>)
  /\ n' = N
  /\ first_args' = first_args_literal
  /\ second_args' = second_args_literal
  /\ loader' = 1
  /\ i' = 0
  /\ compared' = [l \in 1 .. 3 |-> 0]
  /\ pc' = "for"
  /\ UNCHANGED <<inputs, chunk, history, failures, trace>>

\* A driver without the continue.
never_skip(l1, l2) == FALSE

\* if (!(loaded_first_arg && loaded_second_arg)) continue;
skip_chunk(l1, l2) == ~(l1 /\ l2)

\* A lane count that ignores how many elements remain.
full_width(nremaining, w) == w

\* nlanes = Kokkos::Experimental::min(nremaining, width)
chunk_lanes(nremaining, w) == Min(nremaining, w)

\* A lane loop that stops one lane early.
all_but_last_lane(expected) == Len(expected) - 1

\* The bound of the lane loop of {host,device}_check_equality:
\* expected_result.size().
lanes_to_check(expected) == Len(expected)

\* The loop head of {host,device}_check_binary_op_one_loader with i < n:
\* nremaining, nlanes, the two default-constructed batches and the two loads.
LoadChunk ==
  /\ pc = "for"
  /\ i < n
  /\ \E u1 \in Uninit(width), u2 \in Uninit(width), oob \in Garbage :
       LET nremaining == n - i
           lanes == chunk_lanes(nremaining, width)
           r1 == load(Loader, first_args, i, lanes, u1, oob)
           r2 == load(Loader, second_args, i, lanes, u2, oob)
       IN /\ nlanes' = lanes
          /\ prior_first' = u1
          /\ prior_second' = u2
          /\ first_arg' = r1.result
          /\ second_arg' = r2.result
          /\ loaded_first_arg' = r1.ok
          /\ loaded_second_arg' = r2.ok
          /\ reads' = {i + k : k \in r1.reads \cup r2.reads}
          /\ writes' = r1.writes \cup r2.writes
  /\ asserts' = <<>>
  /\ pc' = "loaded"
  /\ UNCHANGED <<inputs, arguments, history, rest, abi_log, loader, i,
                 expected_result, computed_result, lane, failures,
                 compared, trace>>

\* What the trace keeps of a chunk: its place, the loads' answers, the
\* batches of the loads that succeeded, and its assertions.
ChunkRecord ==
  [loader |-> Loader, i |-> i, nlanes |-> nlanes,
   loaded |-> <<loaded_first_arg, loaded_second_arg>>,
   first |-> IF loaded_first_arg THEN first_arg ELSE <<>>,
   second |-> IF loaded_second_arg THEN second_arg ELSE <<>>,
   asserts |-> asserts]

\* continue: a load declined; on to the next chunk (i += width).
SkipChunk ==
  /\ pc = "loaded"
  /\ skip_chunk(loaded_first_arg, loaded_second_arg)
  /\ i' = i + width
  /\ trace' = Append(trace, ChunkRecord)
  /\ LeaveChunk
  /\ pc' = "for"
  /\ UNCHANGED <<inputs, arguments, history, rest, abi_log, loader,
                 failures, compared>>

\* The reference batch, lane by lane from the loaded batches, and the
\* vectorized result.
Compute ==
  /\ pc = "loaded"
  /\ ~skip_chunk(loaded_first_arg, loaded_second_arg)
  /\ expected_result' =
       [j \in 1 .. width |-> plus_scalar(first_arg[j], second_arg[j])]
  /\ computed_result' = plus_simd(first_arg, second_arg, fault)
  /\ compared' = [compared EXCEPT ![loader] = @ + 1]
  /\ pc' = "truth_all_of"
  /\ UNCHANGED <<inputs, arguments, history, rest, abi_log, loader, i,
                 nlanes, prior_first, prior_second, first_arg, second_arg,
                 loaded_first_arg, loaded_second_arg, reads, writes, lane,
                 asserts, failures, trace>>

\* checker.truth(all_of(expected_result == computed_result));
TruthAllOf ==
  /\ pc = "truth_all_of"
  /\ LET x == all_of(simd_eq(expected_result, computed_result, fault), fault)
         o == checker_truth(ctx, x)
     IN /\ asserts' = Append(asserts, <<"truth", "all_of", x>>)
        /\ failures' = failures \o o.record
        /\ pc' = IF o.abort THEN "aborted" ELSE "truth_none_of"
  /\ UNCHANGED <<inputs, arguments, history, rest, abi_log, loader, i,
                 nlanes, prior_first, prior_second, first_arg, second_arg,
                 loaded_first_arg, loaded_second_arg, reads, writes,
                 expected_result, computed_result, lane, compared, trace>>

\* checker.truth(none_of(expected_result != computed_result)); then the
\* lane loop starts at 0.
TruthNoneOf ==
  /\ pc = "truth_none_of"
  /\ LET x == none_of(simd_ne(expected_result, computed_result, fault), fault)
         o == checker_truth(ctx, x)
     IN /\ asserts' = Append(asserts, <<"truth", "none_of", x>>)
        /\ failures' = failures \o o.record
        /\ pc' = IF o.abort THEN "aborted" ELSE "equality"
  /\ lane' = 0
  /\ UNCHANGED <<inputs, arguments, history, rest, abi_log, loader, i,
                 nlanes, prior_first, prior_second, first_arg, second_arg,
                 loaded_first_arg, loaded_second_arg, reads, writes,
                 expected_result, computed_result, compared, trace>>

\* checker.equality(expected_result[i], computed_result[i]); ++i
Equality ==
  /\ pc = "equality"
  /\ lane < lanes_to_check(expected_result)
  /\ LET a == expected_result[lane + 1]
         b == computed_result[lane + 1]
         o == checker_equality(ctx, a, b)
     IN /\ asserts' = Append(asserts, <<"equality", lane, a, b>>)
        /\ failures' = failures \o o.record
        /\ pc' = IF o.abort THEN "aborted" ELSE "equality"
        /\ lane' = IF o.abort THEN lane ELSE lane + 1
  /\ UNCHANGED <<inputs, arguments, history, rest, abi_log, loader, i,
                 nlanes, prior_first, prior_second, first_arg, second_arg,
                 loaded_first_arg, loaded_second_arg, reads, writes,
                 expected_result, computed_result, compared, trace>>

\* The lane loop is over: the chunk is done (i += width).
EndChunk ==
  /\ pc = "equality"
  /\ lane >= lanes_to_check(expected_result)
  /\ i' = i + width
  /\ trace' = Append(trace, ChunkRecord)
  /\ LeaveChunk
  /\ pc' = "for"
  /\ UNCHANGED <<inputs, arguments, history, rest, abi_log, loader,
                 failures, compared>>

\* The loop of one strategy is over (i >= n): the next strategy starts.
NextLoader ==
  /\ pc = "for"
  /\ i >= n
  /\ loader < Len(all_loaders)
  /\ loader' = loader + 1
  /\ i' = 0
  /\ UNCHANGED <<inputs, arguments, chunk, history, rest, abi_log,
                 failures, compared, trace, pc>>

\* The loop of the last strategy is over: the call of
\* {host,device}_check_binary_op_all_loaders returns; host_check_abis goes
\* on with the remaining configurations.
AllLoadersReturn ==
  /\ pc = "for"
  /\ i >= n
  /\ loader = Len(all_loaders)
  /\ IF entry = "TEST"
     THEN /\ abi_log' = Append(abi_log, <<"end", width>>)
          /\ pc' = "host_check_abis"
     ELSE /\ abi_log' = abi_log
          /\ pc' = "returned"
  /\ UNCHANGED <<inputs, arguments, chunk, history, rest, loader, i,
                 failures, compared, trace>>

\* The test has run to its end and is run a second time.
Rerun ==
  /\ pc = "returned"
  /\ entry = "TEST"
  /\ run = 1
  /\ run' = 2
  /\ prev_trace' = trace
  /\ prev_failures' = failures
  /\ trace' = <<>>
  /\ failures' = <<>>
  /\ abi_log' = <<>>
  /\ rest' = abi_set
  /\ pc' = "host_check_abis"
  /\ UNCHANGED <<inputs, arguments, chunk, loader, i, compared>>

\* One call loader.host_load(mem, n, result) or loader.device_load(mem, n,
\* result) on a default-constructed result.
LoaderCall ==
  /\ pc = "load"
  /\ \E u \in Uninit(width), oob \in Garbage :
       LET r == load(Loader, first_args, 0, n, u, oob)
       IN /\ prior_first' = u
          /\ first_arg' = r.result
          /\ loaded_first_arg' = r.ok
          /\ reads' = r.reads
          /\ writes' = r.writes
  /\ pc' = "load_returned"
  /\ UNCHANGED <<inputs, arguments, history, rest, abi_log, loader, i,
                 nlanes, prior_second, second_arg, loaded_second_arg,
                 expected_result, computed_result, lane, asserts, failures,
                 compared, trace>>

Next ==
  \/ HostCheckAbisEmpty
  \/ HostCheckAbisFirst
  \/ LoadChunk
  \/ SkipChunk
  \/ Compute
  \/ TruthAllOf
  \/ TruthNoneOf
  \/ Equality
  \/ EndChunk
  \/ NextLoader
  \/ AllLoadersReturn
  \/ Rerun
  \/ LoaderCall

Spec == Init /\ [][Next]_vars

\* The process is scheduled until it returns or aborts.
FairSpec == Spec /\ WF_vars(Next)

\* ------------------------------------------------------------ claims

\* The chunk has been loaded and is being compared.
Comparing == pc \in {"truth_all_of", "truth_none_of", "equality"}

\* The lane loop of the chunk is over.
ChunkCompared == pc = "equality" /\ lane >= width

IsPrefix(s, t) == Len(s) <= Len(t) /\ s = SubSeq(t, 1, Len(s))

\* The sums of the two arrays of host_check_addition, lane by lane.
expected_sums == <<2, 4, 0, 11, 0, -2, -4>>

\* C1: with a vector type free of defects and the arrays of
\* host_check_addition (n = 7), in every compared chunk the vectorized
\* result equals the reference in all width lanes, a populated lane j of the
\* chunk at i holds first_args[i + j] + second_args[i + j], a zero-filled
\* lane holds 0 on both sides, no failure is recorded and nothing aborts.
C1_VectorizedEqualsScalar ==
  (fault = "none" /\ entry # "load" /\ n = N) =>
    /\ pc # "aborted"
    /\ failures = <<>>
    /\ Comparing =>
         /\ Len(expected_result) = width
         /\ Len(computed_result) = width
         /\ \A j \in 1 .. width :
              /\ computed_result[j] = expected_result[j]
              /\ j <= nlanes =>
                   /\ expected_result[j] = first_args[i + j] + second_args[i + j]
                   /\ expected_result[j] = expected_sums[i + j]
              /\ j > nlanes => expected_result[j] = 0 /\ computed_result[j] = 0

\* C1 witness: width 4, the masked strategy, the partial chunk at i = 4 with
\* three populated lanes, all four lanes compared.
C1_Witness ==
  /\ entry = "TEST" /\ fault = "none" /\ width = 4
  /\ Loader = "load_masked" /\ i = 4 /\ nlanes = 3
  /\ ChunkCompared
  /\ computed_result = <<0, -2, -4, 0>>

Floor(a, b) == a \div b

Ceil(a, b) == (a + b - 1) \div b

\* The chunks a finished pass of strategy l compares.
ComparedChunks(l) ==
  IF l = "load_element_aligned" THEN Floor(n, width) ELSE Ceil(n, width)

\* C2: a chunk one of whose loads returned false is skipped: no reference or
\* vectorized result, no assertion, no failure, and the loop goes on with
\* the next chunk; so a finished pass of the element-aligned strategy has
\* compared floor(n / width) chunks and a pass of the masked or scalar
\* strategy ceil(n / width).
C2_DeclinedChunkSkipped ==
  /\ [](pc = "for" /\ i >= n => compared[loader] = ComparedChunks(Loader))
  /\ [][(pc = "loaded" /\ ~(loaded_first_arg /\ loaded_second_arg)) =>
          /\ pc' = "for"
          /\ i' = i + width
          /\ asserts = <<>>
          /\ expected_result = <<>>
          /\ computed_result = <<>>
          /\ failures' = failures
          /\ compared' = compared
          /\ trace' = Append(trace, ChunkRecord)
          /\ ChunkRecord.asserts = <<>>]_vars

\* C2 witness: n = 7 and width 4 in the device form, all three passes
\* finished: 1 chunk compared by the element-aligned strategy, 2 by each of
\* the others, and the trailing chunk of the first pass skipped.
C2_Witness ==
  /\ ctx = "device" /\ n = 7 /\ width = 4
  /\ pc = "returned"
  /\ compared = <<1, 2, 2>>
  /\ \E k \in 1 .. Len(trace) :
       /\ trace[k].loader = "load_element_aligned"
       /\ trace[k].i = 4
       /\ trace[k].loaded = <<FALSE, FALSE>>

\* A loader's call has returned: its own call, or the first load of a chunk
\* (base and count are those of the call).
LoadReturned(l) ==
  /\ Loader = l
  /\ pc \in {"load_returned", "loaded"}

LoadBase == IF pc = "loaded" THEN i ELSE 0

LoadCount == IF pc = "loaded" THEN nlanes ELSE n

\* C3: the element-aligned loader returns false, the destination unchanged,
\* exactly when the available count is below the width; otherwise it returns
\* true with lane j = mem[j] for every j < width, however large the count.
C3_ElementAlignedLoad ==
  LoadReturned("load_element_aligned") =>
    /\ loaded_first_arg = ~(LoadCount < width)
    /\ ~loaded_first_arg => first_arg = prior_first
    /\ loaded_first_arg =>
         /\ Len(first_arg) = width
         /\ \A j \in 0 .. width - 1 :
              first_arg[j + 1] = first_args[LoadBase + j + 1]

\* C3 witness: a call with 7 elements available and width 4 succeeded.
C3_Witness ==
  /\ LoadReturned("load_element_aligned")
  /\ pc = "load_returned" /\ n = 7 /\ width = 4
  /\ loaded_first_arg
  /\ first_arg = <<1, 2, -1, 10>>

\* C4: for 0 <= count <= width the masked and the scalar loader return true
\* and leave lane j = mem[j] for j < count and 0 for count <= j < width,
\* whatever the destination held: the two strategies leave the same batch,
\* and with count = width the batch of the element-aligned loader.
C4_MaskedAndScalarLoad ==
  (LoadReturned("load_masked") \/ LoadReturned("load_as_scalars")) =>
    /\ LoadCount <= width
    /\ loaded_first_arg
    /\ Len(first_arg) = width
    /\ \A j \in 0 .. width - 1 :
         first_arg[j + 1] =
           IF j < LoadCount THEN first_args[LoadBase + j + 1] ELSE 0
    /\ \A u \in Uninit(width), oob \in Garbage :
         /\ first_arg =
              load_masked(first_args, LoadBase, LoadCount, u, oob).result
         /\ first_arg =
              load_as_scalars(first_args, LoadBase, LoadCount, u, oob).result
         /\ LoadCount = width =>
              first_arg =
                load_element_aligned(first_args, LoadBase, LoadCount, u, oob).result

\* C4 witness: the masked loader called with 2 elements and width 4 on a
\* destination that held 9 in every lane.
C4_Witness ==
  /\ LoadReturned("load_masked")
  /\ pc = "load_returned" /\ n = 2 /\ width = 4
  /\ prior_first = <<9, 9, 9, 9>>
  /\ first_arg = <<1, 2, 0, 0>>

\* The assertion a is an equality of two different values.
IsMismatch(a) == a[1] = "equality" /\ a[3] # a[4]

\* The assertion a is a truth that received false.
IsFalseTruth(a) == a[1] = "truth" /\ ~a[3]

\* An equality assertion of the chunk has compared two different values.
EqualityMismatch == \E k \in 1 .. Len(asserts) : IsMismatch(asserts[k])

\* C5: an elementwise mismatch in the host context is recorded through the
\* test framework (EXPECT_EQ) and the process is terminated; in the device
\* context execution halts; in both, the mismatching equality is the last
\* assertion evaluated.
C5_MismatchRecordedAndFatal ==
  \A k \in 1 .. Len(asserts) :
    IsMismatch(asserts[k]) =>
      /\ pc = "aborted"
      /\ k = Len(asserts)
      /\ ctx = "host" => \E m \in 1 .. Len(failures) : failures[m] = "EXPECT_EQ"

\* The truth assertions that received false in a sequence of assertions.
FalseTruths(as) == Cardinality({k \in 1 .. Len(as) : IsFalseTruth(as[k])})

RECURSIVE FalseTruthsOfChunks(_)
FalseTruthsOfChunks(chunks) ==
  IF chunks = <<>> THEN 0
  ELSE FalseTruths(Head(chunks).asserts) + FalseTruthsOfChunks(Tail(chunks))

\* C6 as stated: once a truth assertion has received false, nothing further
\* is processed, in the host and in the device context.
C6_ReductionMismatchTerminal ==
  \A k \in 1 .. Len(asserts) :
    IsFalseTruth(asserts[k]) => pc = "aborted" /\ k = Len(asserts)

\* C6 amended: in the device context the first truth assertion that
\* receives false halts execution, and nothing further is processed.  In the
\* host context every truth assertion that receives false is recorded as a
\* failure and the run goes on: the host run is aborted by nothing but an
\* equality of two different values.
C6_ReductionMismatchTerminalOnDevice ==
  /\ ctx = "device" =>
       /\ FalseTruthsOfChunks(trace) = 0
       /\ \A k \in 1 .. Len(asserts) :
            IsFalseTruth(asserts[k]) => pc = "aborted" /\ k = Len(asserts)
  /\ ctx = "host" =>
       /\ Len(failures) = FalseTruthsOfChunks(trace) + FalseTruths(asserts)
       /\ \A m \in 1 .. Len(failures) : failures[m] = "EXPECT_TRUE"
       /\ pc = "aborted" =>
            asserts # <<>> /\ IsMismatch(asserts[Len(asserts)])

\* C6 witness: in the host context all_of answered false on a chunk whose
\* lanes all compare equal; the failure is recorded, every lane of the
\* chunk has been compared since, and later chunks too.
C6_Witness ==
  /\ ctx = "host" /\ fault = "all_of" /\ width = 2
  /\ ChunkCompared
  /\ asserts[1] = <<"truth", "all_of", FALSE>>
  /\ Len(asserts) = 4
  /\ ~EqualityMismatch
  /\ Len(trace) >= 2
  /\ Len(failures) = Len(trace) + 1

\* The log of host_check_abis on a set: each configuration begun and ended,
\* in the set's order.
RECURSIVE ExpectedLog(_)
ExpectedLog(set) ==
  IF set = <<>> THEN <<>>
  ELSE <<<<"begin", Head(set)>>, <<"end", Head(set)>>>> \o ExpectedLog(Tail(set))

Terminated == pc \in {"returned", "aborted", "load_returned"}

\* C7: host_check_abis terminates, and when it returns the host check has
\* run once for each configuration of the set, in the set's order, one
\* finishing before the next begins; nothing is run for the empty set.
C7_EveryAbiOnceInOrder ==
  /\ [](entry = "TEST" =>
          /\ IsPrefix(abi_log, ExpectedLog(abi_set))
          /\ Len(abi_log) % 2 = 1 => pc \notin {"host_check_abis", "returned"}
          /\ pc = "returned" => abi_log = ExpectedLog(abi_set))
  /\ (entry = "TEST" => <>(pc \in {"returned", "aborted"}))

\* C7 witness: the set of widths 4 and 1, in this order, has been run.
C7_Witness ==
  /\ entry = "TEST" /\ pc = "returned" /\ abi_set = <<4, 1>>
  /\ abi_log = <<<<"begin", 4>>, <<"end", 4>>, <<"begin", 1>>, <<"end", 1>>>>

\* C8: the second run of the test makes the loads, skips and comparisons of
\* the first and records the failures of the first; the arrays are those
\* host_check_addition declares throughout.
C8_SecondRunRepeatsFirst ==
  /\ (entry # "load" /\ n # 0) =>
       /\ first_args = Prefix(first_args_literal, n)
       /\ second_args = Prefix(second_args_literal, n)
  /\ run = 2 =>
       /\ IsPrefix(trace, prev_trace)
       /\ IsPrefix(failures, prev_failures)
       /\ pc = "returned" => trace = prev_trace /\ failures = prev_failures

\* C8 witness: a second run over the widths 4 and 2 has ended; it skipped
\* and compared chunks.
C8_Witness ==
  /\ run = 2 /\ pc = "returned" /\ abi_set = <<4, 2>>
  /\ \E k \in 1 .. Len(trace) : trace[k].loaded = <<FALSE, FALSE>>
  /\ \E k \in 1 .. Len(trace) :
       trace[k].loader = "load_as_scalars" /\ trace[k].nlanes < Len(trace[k].first)

\* The assertions of a compared chunk, as far as they have been made: the
\* two reductions, then the lanes from 0 upward.
InOrder(as, w) ==
  /\ Len(as) <= w + 2
  /\ \A k \in 1 .. Len(as) :
       CASE k = 1 -> as[k][1] = "truth" /\ as[k][2] = "all_of"
         [] k = 2 -> as[k][1] = "truth" /\ as[k][2] = "none_of"
         [] OTHER -> as[k][1] = "equality" /\ as[k][2] = k - 3

\* C9: a chunk that is not skipped gets one truth assertion on all_of, one
\* on none_of, then one equality assertion per lane 0 .. width - 1 in
\* increasing order, zero-filled lanes included, each on the lane of the
\* expected and of the computed batch; the expected batch is the scalar
\* operation on the lanes of the loaded batches.
C9_AssertionsInOrder ==
  /\ Comparing =>
       /\ InOrder(asserts, width)
       /\ ChunkCompared => Len(asserts) = width + 2
       /\ \A j \in 1 .. width :
            expected_result[j] = first_arg[j] + second_arg[j]
       /\ \A k \in 3 .. Len(asserts) :
            /\ asserts[k][3] = expected_result[k - 2]
            /\ asserts[k][4] = computed_result[k - 2]
  /\ \A k \in 1 .. Len(trace) :
       LET c == trace[k]
       IN IF c.loaded = <<TRUE, TRUE>>
          THEN InOrder(c.asserts, Len(c.first)) /\ Len(c.asserts) = Len(c.first) + 2
          ELSE c.asserts = <<>>

\* C9 witness: a partial chunk of width 4 with one populated lane has had
\* its two reductions and its four lanes asserted.
C9_Witness ==
  /\ ChunkCompared /\ width = 4 /\ nlanes = 1
  /\ Len(asserts) = 6
  /\ asserts[6][1] = "equality" /\ asserts[6][2] = 3

\* C10: in every iteration 0 <= i < n, 1 <= nlanes <= width, the loads read
\* no element of the arrays at an index >= n and write no lane >= width;
\* and the run terminates.
C10_InBoundsAndTerminates ==
  /\ []((pc = "loaded" \/ Comparing) =>
          /\ 0 <= i /\ i < n
          /\ n - i >= 0
          /\ 1 <= nlanes /\ nlanes <= width
          /\ \A r \in reads : 0 <= r /\ r < n
          /\ \A l \in writes : 0 <= l /\ l < width)
  /\ [](pc = "load_returned" =>
          /\ \A r \in reads : 0 <= r /\ r < n
          /\ \A l \in writes : 0 <= l /\ l < width)
  /\ <>[]Terminated

\* C10 witness: the trailing chunk of n = 7 at width 4 under the masked
\* strategy: three lanes read at indices 4 to 6, four lanes written.
C10_Witness ==
  /\ pc = "loaded" /\ Loader = "load_masked" /\ n = 7 /\ width = 4 /\ i = 4
  /\ nlanes = 3
  /\ reads = {4, 5, 6}
  /\ writes = {0, 1, 2, 3}

=============================================================================
